---- MODULE Spec2Model ----
(***************************************************************************)
(* Model of the suspension-travel batch pipeline (colinpate/sus):          *)
(*   - Runner.run with its npz cache and plot dispatch (classes/runner.py) *)
(*   - ChunkStep / ChunkedTimeSeries.iter_chunks (classes/step.py,         *)
(*     classes/time_series.py)                                             *)
(*   - FilterChunkPairs (accel_rotation.py)                                *)
(*   - FindCalibrationChunks (fusion.py)                                   *)
(***************************************************************************)
EXTENDS Integers, Sequences, FiniteSets, TLC

VARIABLES
    steps,      \* the step list handed to Runner.run
    flags,      \* Runner fields of the current run: write_cache, read_cache, make_plots
    flags1,     \* Runner fields the first run was made with
    ws,         \* the Workspace dict: key -> artifact
    cache,      \* out_dir/cache: blob name -> payload (saved entry name -> array)
    i,          \* the for-loop position of Runner.run (0-based, = steps processed)
    status,     \* "running", "done", or how the run was aborted
    err,        \* the keys named by the KeyError of the missing-input check
    calls,      \* step position -> number of step.run invocations in this run
    log,        \* what each iteration did, in order (history)
    runNo,      \* 1 or 2: which execution of Runner.run this is
    ws1,        \* the Workspace run 1 returned (history; empty if it did not return)
    \* FindCalibrationChunks.run (fusion.py)
    fs_hz,      \* mag_ts.meta["fs_hz"]
    mag,        \* mag_ts.x, one column (mG)
    accel,      \* accel_ts.x[:, 0] (m/s^2)
    mag_baseline, \* ws[inputs[2]]
    scan_i,     \* the loop variable i of the scan
    skip,       \* strides still to skip
    slices,     \* the recorded chunks: [i, dir] for slice(i, i+chunk_len) / its mirror
    a_intint_chunks, \* the displacement trace of every recorded chunk
    examined,   \* every candidate examined and where the checks left it (history)
    dstatus,    \* "idle", "scanning", "done" or "error"
    \* ChunkStep.run (classes/step.py) and FilterChunkPairs.run (accel_rotation.py)
    base,       \* sensor -> the x rows of the TimeSeries the ChunkStep reads
    span_len,   \* int(chunk_t_s * fs_hz)
    spans,      \* sensor -> spans of the ChunkedTimeSeries written (0-based, half-open)
    still_pairs, \* the positions of the pairs FilterChunkPairs appended
    filtered_pairs, \* ws[outputs[0]] of FilterChunkPairs: <<TRUE, pairs>> once written
    filtered_pairs_col, \* ws[outputs[0]] of FilterColinearPairs: <<TRUE, pairs>> once written
    cpc,        \* the step about to run, or "done" / "error"
    \* GetAccelTravelVector.run (accel_rotation.py)
    tv_x,       \* a.x of the input TimeSeries: rows of three components
    chunk_size, \* self.chunk_size
    accel_trav_vec, \* ws[outputs[0]]: <<TRUE, value>> once written
    mags_vs_means,  \* ws[outputs[1]]: <<TRUE, value>> once written
    tv_err,     \* the exception GetAccelTravelVector.run raised, "" if none
    tv_pc,      \* "idle", "ready", "done" or "error"
    \* TimeSeries construction (classes/time_series.py)
    ts_made,    \* the TimeSeries constructed last: <<[t |-> shape, x |-> shape]>>, or <<>>
    ts_args,    \* the arguments of the last constructor call and who made it (history)
    ts_err,     \* the exception the last constructor call raised, "" if none
    \* RotationFromPairs.kabsch_rotation (accel_rotation.py)
    kab_A,      \* A: one unit vector per pair (rows)
    kab_B,      \* B: one unit vector per pair (rows)
    kab_w,      \* weights
    kab_U,      \* U as np.linalg.svd returned it
    kab_Vt,     \* Vt as np.linalg.svd returned it
    kab_R,      \* the matrix returned: <<R>>, or <<>>
    kab_pc      \* "idle", "ready", "done" or "error"

rvars == <<steps, flags, flags1, ws, cache, i, status, err, calls, log, runNo, ws1>>
dvars == <<fs_hz, mag, accel, mag_baseline, scan_i, skip, slices, a_intint_chunks,
           examined, dstatus>>
cvars == <<base, span_len, spans, still_pairs, filtered_pairs, filtered_pairs_col, cpc>>
tvars == <<tv_x, chunk_size, accel_trav_vec, mags_vs_means, tv_err, tv_pc>>
tsvars == <<ts_made, ts_args, ts_err>>
kvars == <<kab_A, kab_B, kab_w, kab_U, kab_Vt, kab_R, kab_pc>>
avars == <<tvars, tsvars, kvars>>
vars == <<rvars, dvars, cvars, avars>>

(***************************************************************************)
(* Small helpers                                                           *)
(***************************************************************************)
Range(s) == {s[k] : k \in 1..Len(s)}

EmptyMap == [k \in {} |-> 0]

Put(f, k, v) == [x \in DOMAIN f \cup {k} |-> IF x = k THEN v ELSE f[x]]

RECURSIVE SetToSeq(_)
SetToSeq(S) == IF S = {} THEN <<>>
               ELSE LET x == CHOOSE x \in S : TRUE IN <<x>> \o SetToSeq(S \ {x})

RECURSIVE SumSeq(_)
SumSeq(s) == IF s = <<>> THEN 0 ELSE Head(s) + SumSeq(Tail(s))

(***************************************************************************)
(* Signal model: artifacts the Workspace can hold                          *)
(***************************************************************************)
\* TimeSeries(t, x, units, frame, meta); val stands for the (t, x) arrays
TimeSeries(val, units, frame, meta) ==
    [kind |-> "TimeSeries", val |-> val, units |-> units, frame |-> frame,
     meta |-> meta, ndim |-> 2]

\* ChunkedTimeSeries(base, spans, meta)
ChunkedTimeSeries(val, meta) ==
    [kind |-> "ChunkedTimeSeries", val |-> val, units |-> "", frame |-> "",
     meta |-> meta, ndim |-> 0]

\* a numpy array of the given number of dimensions (0 = scalar array)
NdArray(val, ndim) ==
    [kind |-> "ndarray", val |-> val, units |-> "", frame |-> "",
     meta |-> {}, ndim |-> ndim]

\* a python list (of chunk pairs)
PyList(val) ==
    [kind |-> "list", val |-> val, units |-> "", frame |-> "",
     meta |-> {}, ndim |-> 0]

\* what the loaders put in the Workspace before the run
LoadedWorkspace ==
    [k \in {"accel/lis1", "accel/lis2", "mag", "angle"} |->
        CASE k = "accel/lis1" -> TimeSeries(1, "m/s^2", "sensor", {"sensor_id", "fs_hz"})
          [] k = "accel/lis2" -> TimeSeries(2, "m/s^2", "sensor", {"sensor_id", "fs_hz"})
          [] k = "mag"        -> TimeSeries(3, "milli-Gauss", "sensor", {"fs_hz"})
          [] OTHER            -> TimeSeries(4, "radians", "sensor", {"fs_hz"})]

(***************************************************************************)
(* Steps                                                                   *)
(***************************************************************************)
PlotKey(k) == [spec |-> FALSE, kind |-> "", key |-> k]
PlotSpec(kind, k) == [spec |-> TRUE, kind |-> kind, key |-> k]

Step(cls, name, inputs, outputs, plot_keys) ==
    [cls |-> cls, name |-> name, inputs |-> inputs, outputs |-> outputs,
     plot_keys |-> plot_keys]

LowpassLis1 == Step("FilterStep", "lowpass_lis1", <<"accel/lis1">>, <<"accel_lp/lis1">>,
                    <<PlotKey("accel/lis1"), PlotKey("accel_lp/lis1")>>)
LowpassLis2 == Step("FilterStep", "lowpass_lis2", <<"accel/lis2">>, <<"accel_lp/lis2">>,
                    <<PlotKey("accel/lis2"), PlotKey("accel_lp/lis2")>>)
ChunkLis1 == Step("ChunkStep", "chunk_lis1", <<"accel_lp/lis1">>, <<"accel_chunks/lis1">>, <<>>)
ChunkLis2 == Step("ChunkStep", "chunk_lis2", <<"accel_lp/lis2">>, <<"accel_chunks/lis2">>, <<>>)
FilterPairs == Step("FilterChunkPairs", "filter_pairs",
                    <<"accel_chunks/lis1", "accel_chunks/lis2">>, <<"filtered_pairs">>, <<>>)
GetAccTravVec == Step("GetAccelTravelVector", "get_acc_trav_vec", <<"accel_lp/lis1">>,
                      <<"accel_trav_vec", "mags_vs_means">>,
                      <<PlotSpec("scatter", "mags_vs_means")>>)

FilterColinear == Step("FilterColinearPairs", "filter_colinear",
                       <<"filtered_pairs">>, <<"filtered_pairs_col">>, <<>>)
AccelRotFromPairs == Step("RotationFromPairs", "accel_rot_from_pairs",
                          <<"filtered_pairs_col">>, <<"rotation_matrix">>, <<>>)
GetRelAccel == Step("GetRelativeAccel", "get_rel_accel",
                    <<"accel/lis1", "accel/lis2", "rotation_matrix">>,
                    <<"accel/lis2_in_lis1", "accel/relative">>,
                    <<PlotKey("accel/lis2_in_lis1"), PlotKey("accel/relative")>>)
LowpassAccelrel == Step("FilterStep", "lowpass_accelrel",
                        <<"accel/relative">>, <<"accel_lp/relative">>, <<>>)
GetAccTravVecRelative == Step("GetAccelTravelVector", "get_acc_trav_vec",
                              <<"accel_lp/relative">>,
                              <<"accel_trav_vec", "mags_vs_means">>,
                              <<PlotSpec("scatter", "mags_vs_means")>>)
ProjectAccelStep == Step("ProjectAccel", "project_accel",
                         <<"accel_trav_vec", "accel/relative">>, <<"accel/proj">>,
                         <<PlotKey("accel/proj")>>)
LowpassAccelproj == Step("FilterStep", "lowpass_accelproj",
                         <<"accel/proj">>, <<"accel_lp/proj">>, <<>>)
HighpassAccelproj == Step("FilterStep", "highpass_accelproj",
                          <<"accel_lp/proj">>, <<"accel_lphp/proj">>, <<>>)
LowpassAngle == Step("FilterStep", "lowpass_angle", <<"angle">>, <<"angle/filt">>,
                     <<PlotKey("angle"), PlotKey("angle/filt")>>)
AngleToTravelStep == Step("AngleToTravel", "angle_to_travel",
                          <<"angle/filt">>, <<"travel">>, <<>>)
ProjectMagStep == Step("ProjectMag", "project_mag", <<"mag">>, <<"mag_proj">>,
                       <<PlotKey("mag_proj")>>)
LowpassMagProj == Step("FilterStep", "lowpass_mag_proj", <<"mag_proj">>, <<"mag_proj/filt">>,
                       <<PlotKey("mag_proj/filt")>>)
MagToTravelPolyfitStep == Step("MagToTravelPolyFit", "mag_to_travel_polyfit",
                               <<"mag_proj", "travel">>,
                               <<"travel/mag_polyfit", "travel_vs_mag", "travel_vs_pred">>,
                               <<PlotSpec("scatter", "travel_vs_mag"),
                                 PlotSpec("scatter", "travel_vs_pred")>>)
GetMagBaselineStep == Step("GetMagBaseline", "get_mag_baseline",
                           <<"mag_proj/filt", "accel_lphp/proj">>, <<"mag_baseline">>, <<>>)
FindCalChunks == Step("FindCalibrationChunks", "find_cal_chunks",
                      <<"mag_proj/filt", "accel_lphp/proj", "mag_baseline">>,
                      <<"cal_chunks_a", "cal_chunks_mag", "cal_chunk_slices">>, <<>>)

\* (mutant of PipelineSteps) project_accel is listed before get_acc_trav_vec
PipelineStepsProjectFirst ==
    <<LowpassLis1, LowpassLis2, ChunkLis1, ChunkLis2, FilterPairs, FilterColinear,
      AccelRotFromPairs, GetRelAccel, LowpassAccelrel, ProjectAccelStep,
      GetAccTravVecRelative, LowpassAccelproj, HighpassAccelproj, LowpassAngle,
      AngleToTravelStep, ProjectMagStep, LowpassMagProj, MagToTravelPolyfitStep,
      GetMagBaselineStep, FindCalChunks>>

\* steps: List[Step] = [...] of pipeline.main
PipelineSteps ==
    <<LowpassLis1, LowpassLis2, ChunkLis1, ChunkLis2, FilterPairs, FilterColinear,
      AccelRotFromPairs, GetRelAccel, LowpassAccelrel, GetAccTravVecRelative,
      ProjectAccelStep, LowpassAccelproj, HighpassAccelproj, LowpassAngle,
      AngleToTravelStep, ProjectMagStep, LowpassMagProj, MagToTravelPolyfitStep,
      GetMagBaselineStep, FindCalChunks>>

\* the step lists the model runs: pipeline.main's list, its head, and lists
\* cut from it that are not dependency-valid or that plot through a PlotSpec
StepLists ==
    { PipelineSteps,
      <<LowpassLis1, LowpassLis2, ChunkLis1, ChunkLis2, FilterPairs>>,
      <<LowpassLis1, ChunkLis1, FilterPairs>>,
      <<LowpassLis1, GetAccTravVec>>,
      <<ChunkLis1, LowpassLis1>> }

\* value of output j of a step: a pure function of the step and its inputs
OutVal(step, j, w) ==
    (10 * SumSeq([k \in 1..Len(step.inputs) |-> w[step.inputs[k]].val])
        + Len(step.name) + j) % 100003

\* the step can read what it reads from its inputs: ws[self.inputs[k]] is there and
\* of the kind whose fields the step uses (else step.run raises)
StepInputsUsable(step, w) ==
    /\ \A k \in 1..Len(step.inputs) : step.inputs[k] \in DOMAIN w
    /\ CASE step.cls \in {"FilterStep", "ChunkStep"} ->
            /\ w[step.inputs[1]].kind = "TimeSeries"
            /\ "fs_hz" \in w[step.inputs[1]].meta
         [] step.cls = "FilterChunkPairs" ->
            \A k \in 1..2 : w[step.inputs[k]].kind = "ChunkedTimeSeries"
         [] step.cls \in {"FilterColinearPairs", "RotationFromPairs"} ->
            w[step.inputs[1]].kind = "list"
         [] step.cls = "GetRelativeAccel" ->
            /\ \A k \in 1..2 : w[step.inputs[k]].kind = "TimeSeries"
            /\ w[step.inputs[3]].kind = "ndarray"
         [] step.cls = "ProjectAccel" ->
            /\ w[step.inputs[1]].kind = "ndarray"
            /\ w[step.inputs[2]].kind = "TimeSeries"
         [] step.cls = "MagToTravelPolyFit" ->
            \A k \in 1..2 : w[step.inputs[k]].kind = "TimeSeries"
         [] step.cls \in {"GetMagBaseline", "FindCalibrationChunks"} ->
            /\ \A k \in 1..2 : w[step.inputs[k]].kind = "TimeSeries"
            /\ w[step.inputs[1]].units = "milli-Gauss"
            /\ w[step.inputs[2]].units = "m/s^2"
            /\ "fs_hz" \in w[step.inputs[1]].meta
         [] OTHER -> w[step.inputs[1]].kind = "TimeSeries"

\* (mutant of StepRun) the step takes its first input out of the Workspace
StepRunConsuming(step, w) ==
    [k \in (DOMAIN w \ {step.inputs[1]}) \cup Range(step.outputs) |->
        IF k \in Range(step.outputs) THEN NdArray(Len(step.name), 1) ELSE w[k]]

\* step.run(ws): the Workspace after the step wrote its outputs
StepRun(step, w) ==
    LET in1 == w[step.inputs[1]] IN
    CASE step.cls = "FilterStep" ->
            Put(w, step.outputs[1],
                TimeSeries(OutVal(step, 1, w), in1.units, in1.frame,
                           in1.meta \cup {step.name \o "_fc_hz", step.name \o "_btype"}))
      [] step.cls = "ChunkStep" ->
            Put(w, step.outputs[1],
                ChunkedTimeSeries(OutVal(step, 1, w), in1.meta \cup {"chunk_t_s"}))
      [] step.cls \in {"FilterChunkPairs", "FilterColinearPairs"} ->
            Put(w, step.outputs[1], PyList(OutVal(step, 1, w)))
      [] step.cls = "RotationFromPairs" ->
            Put(w, step.outputs[1], NdArray(OutVal(step, 1, w), 2))
      [] step.cls = "GetRelativeAccel" ->
            LET b == w[step.inputs[2]]
                meta == b.meta \cup {"rotation_applied"}
            IN Put(Put(w, step.outputs[1],
                       TimeSeries(OutVal(step, 1, w), b.units, in1.frame, meta)),
                   step.outputs[2],
                   TimeSeries(OutVal(step, 2, w), b.units, in1.frame, meta))
      [] step.cls = "ProjectAccel" ->
            LET a == w[step.inputs[2]]
            IN Put(w, step.outputs[1],
                   TimeSeries(OutVal(step, 1, w), a.units, a.frame,
                              a.meta \cup {"travel_vector"}))
      [] step.cls = "AngleToTravel" ->
            Put(w, step.outputs[1],
                TimeSeries(OutVal(step, 1, w), "mm", in1.frame, in1.meta))
      [] step.cls = "ProjectMag" ->
            Put(w, step.outputs[1],
                TimeSeries(OutVal(step, 1, w), in1.units, in1.frame, in1.meta))
      [] step.cls = "MagToTravelPolyFit" ->
            LET travel_series == w[step.inputs[2]]
            IN Put(Put(Put(w, step.outputs[1],
                           TimeSeries(OutVal(step, 1, w), travel_series.units,
                                      travel_series.frame,
                                      in1.meta \cup {"polyfit_applied"})),
                       step.outputs[2], NdArray(OutVal(step, 2, w), 2)),
                   step.outputs[3], NdArray(OutVal(step, 3, w), 2))
      [] step.cls = "GetMagBaseline" ->
            Put(w, step.outputs[1], NdArray(OutVal(step, 1, w), 0))
      [] step.cls = "FindCalibrationChunks" ->
            Put(Put(Put(w, step.outputs[1], NdArray(OutVal(step, 1, w), 2)),
                    step.outputs[2], NdArray(OutVal(step, 2, w), 2)),
                step.outputs[3], NdArray(OutVal(step, 3, w), 2))
      [] OTHER ->
            Put(Put(w, step.outputs[1], NdArray(OutVal(step, 1, w), 1)),
                step.outputs[2], NdArray(OutVal(step, 2, w), 2))

(***************************************************************************)
(* Runner (classes/runner.py)                                              *)
(***************************************************************************)
FlagSets == [write_cache : BOOLEAN, read_cache : BOOLEAN, make_plots : BOOLEAN]

\* i_step_name = f"{i}_{step.name}", the cache blob of the step at loop index idx
StepBlobName(idx, step) == ToString(idx) \o "_" \o step.name

\* the entries _save_cache puts in the payload for key k holding artifact v:
\* k__t and k__x for a TimeSeries, k for an ndarray, nothing for anything else
PayloadEntry(v) ==
    IF v.kind = "TimeSeries" THEN {[form |-> "t_x", val |-> v.val, ndim |-> v.ndim]}
    ELSE IF v.kind = "ndarray" THEN {[form |-> "array", val |-> v.val, ndim |-> v.ndim]}
    ELSE {}

\* Runner._save_cache(step_name, ws, keys): the cache after np.savez_compressed
SaveCache(c, blob, w, keys) ==
    LET saved == {k \in Range(keys) : PayloadEntry(w[k]) # {}}
        payload == [k \in saved |-> CHOOSE e \in PayloadEntry(w[k]) : TRUE]
    IN Put(c, blob, payload)

\* the TimeSeries _load_cache rebuilds from a payload entry: TimeSeries(t=.., x=..)
LoadedArtifact(e) == TimeSeries(e.val, "", "", {})

\* a blob np.load cannot read (truncated or overwritten file): np.load raises
UnreadableBlob == [k \in {"?"} |-> [form |-> "unreadable", val |-> 0, ndim |-> 0]]
Unreadable(data) == "?" \in DOMAIN data

\* a blob entry whose k__t and k__x arrays differ in length: TimeSeries(...) raises
Mismatched(e) == [form |-> "t_x_mismatched", val |-> e.val, ndim |-> e.ndim]

\* the first key (as a position in keys) at which _load_cache raises, 0 if none
FirstBadEntry(data, keys) ==
    LET bad == {j \in 1..Len(keys) :
                   keys[j] \in DOMAIN data /\ data[keys[j]].form = "t_x_mismatched"}
    IN IF bad = {} THEN 0 ELSE CHOOSE j \in bad : \A m \in bad : j <= m

\* Runner._load_cache(step_name, ws, keys): whether the blob exists, whether the
\* call raised, and the Workspace after the keys with both k__t and k__x in the
\* blob were stored (up to the key at which it raised)
LoadCache(c, blob, w, keys) ==
    IF blob \notin DOMAIN c
    THEN [loaded |-> FALSE, raised |-> FALSE, ws |-> w]
    ELSE IF Unreadable(c[blob])
    THEN [loaded |-> FALSE, raised |-> TRUE, ws |-> w]
    ELSE LET data == c[blob]
             stop == FirstBadEntry(data, keys)
             upto == IF stop = 0 THEN Len(keys) ELSE stop - 1
             hit == {keys[j] : j \in {j \in 1..upto :
                                        keys[j] \in DOMAIN data /\ data[keys[j]].form = "t_x"}}
         IN [loaded |-> stop = 0, raised |-> stop # 0,
             ws |-> [k \in DOMAIN w \cup hit |->
                        IF k \in hit THEN LoadedArtifact(data[k]) ELSE w[k]]]

\* (mutant of Missing) only the first declared input is looked up
MissingFirstOnly(step, w) ==
    IF step.inputs[1] \notin DOMAIN w THEN <<step.inputs[1]>> ELSE <<>>

\* missing = [k for k in step.inputs if k not in ws]
Missing(step, w) == SelectSeq(step.inputs, LAMBDA k : k \notin DOMAIN w)

\* plot_keys = step.plot_keys or step.outputs
PlotKeys(step) ==
    IF step.plot_keys # <<>> THEN step.plot_keys
    ELSE [k \in 1..Len(step.outputs) |-> PlotKey(step.outputs[k])]

\* plotting entry p raises: _plot_data indexes data[:, 0] for a scatter PlotSpec,
\* which needs a 2-D ndarray (ws.get gives None for an absent key)
RenderFails(p, w) ==
    /\ p.spec
    /\ p.kind = "scatter"
    /\ ~(p.key \in DOMAIN w /\ w[p.key].kind = "ndarray" /\ w[p.key].ndim = 2)

\* the first plot entry that raises, 0 if none does
FirstRenderFailure(step, w) ==
    LET ps == PlotKeys(step)
        bad == {k \in 1..Len(ps) : RenderFails(ps[k], w)}
    IN IF bad = {} THEN 0 ELSE CHOOSE k \in bad : \A m \in bad : k <= m

\* (mutant of StepAt) the list is walked from its end
StepAtReversed(idx) == Len(steps) - idx

\* enumerate(steps): the list position processed at loop index idx
StepAt(idx) == idx + 1

\* the body of the for loop up to the plots, for the step at loop index idx
Iterate(step, idx, w, c, f) ==
    LET blob == StepBlobName(idx, step)
        ld == IF f.read_cache /\ step.outputs # <<>>
              THEN LoadCache(c, blob, w, step.outputs)
              ELSE [loaded |-> FALSE, raised |-> FALSE, ws |-> w]
        missing == Missing(step, ld.ws)
    IN IF ld.raised
       THEN [how |-> "load_error", ws |-> ld.ws, cache |-> c, err |-> <<>>]
       ELSE IF ld.loaded
       THEN [how |-> "load", ws |-> ld.ws, cache |-> c, err |-> <<>>]
       ELSE IF missing # <<>>
       THEN [how |-> "missing", ws |-> ld.ws, cache |-> c, err |-> missing]
       ELSE IF ~StepInputsUsable(step, ld.ws)
       THEN [how |-> "step_error", ws |-> ld.ws, cache |-> c, err |-> <<>>]
       ELSE LET w2 == StepRun(step, ld.ws)
            IN [how |-> "run", ws |-> w2,
                cache |-> IF f.write_cache /\ step.outputs # <<>>
                          THEN SaveCache(c, blob, w2, step.outputs) ELSE c,
                err |-> <<>>]

\* how the run goes on after an iteration
StatusAfter(step, r, f) ==
    IF r.how = "load_error" THEN "cache_error"
    ELSE IF r.how = "missing" THEN "missing_inputs"
    ELSE IF r.how = "step_error" THEN "step_error"
    ELSE IF f.make_plots /\ FirstRenderFailure(step, r.ws) # 0 THEN "render_error"
    ELSE "running"

\* no ChunkStep or FilterChunkPairs step is running
ChunkerIdle ==
    /\ base = <<>>
    /\ span_len = 0
    /\ spans = <<>>
    /\ still_pairs = <<>>
    /\ filtered_pairs = <<FALSE, <<>> >>
    /\ filtered_pairs_col = <<FALSE, <<>> >>
    /\ cpc = "idle"

\* no GetAccelTravelVector step is running
TravelIdle ==
    /\ tv_x = <<>>
    /\ chunk_size = 0
    /\ accel_trav_vec = <<FALSE, <<>> >>
    /\ mags_vs_means = <<FALSE, <<>> >>
    /\ tv_err = ""
    /\ tv_pc = "idle"

\* no TimeSeries is being constructed
TimeSeriesIdle ==
    /\ ts_made = <<>>
    /\ ts_args = <<>>
    /\ ts_err = ""

\* no RotationFromPairs step is running
KabschIdle ==
    /\ kab_A = <<>>
    /\ kab_B = <<>>
    /\ kab_w = <<>>
    /\ kab_U = <<>>
    /\ kab_Vt = <<>>
    /\ kab_R = <<>>
    /\ kab_pc = "idle"

\* none of the steps modelled on their own is running
StepsIdle == TravelIdle /\ TimeSeriesIdle /\ KabschIdle

\* no FindCalibrationChunks step is running
DetectorIdle ==
    /\ fs_hz = 0
    /\ mag = <<>>
    /\ accel = <<>>
    /\ mag_baseline = 0
    /\ scan_i = 0
    /\ skip = 0
    /\ slices = <<>>
    /\ a_intint_chunks = <<>>
    /\ examined = <<>>
    /\ dstatus = "idle"

Init ==
    /\ steps \in StepLists
    /\ flags \in FlagSets
    /\ flags1 = flags
    /\ ws = LoadedWorkspace
    /\ cache = EmptyMap
    /\ i = 0
    /\ status = "running"
    /\ err = <<>>
    /\ calls = [k \in 1..Len(steps) |-> 0]
    /\ log = <<>>
    /\ runNo = 1
    /\ ws1 = EmptyMap
    /\ DetectorIdle
    /\ ChunkerIdle
    /\ StepsIdle

\* one iteration of the for loop of Runner.run
ProcessStep ==
    /\ status = "running"
    /\ i < Len(steps)
    /\ LET pos == StepAt(i)
           step == steps[pos]
           r == Iterate(step, i, ws, cache, flags)
       IN /\ ws' = r.ws
          /\ cache' = r.cache
          /\ err' = r.err
          /\ status' = StatusAfter(step, r, flags)
          /\ calls' = IF r.how = "run" THEN [calls EXCEPT ![pos] = @ + 1] ELSE calls
          /\ log' = Append(log, [pos |-> pos, how |-> r.how, pre |-> ws])
    /\ i' = i + 1
    /\ UNCHANGED <<steps, flags, flags1, runNo, ws1, dvars, cvars, avars>>

\* after the loop: self._save_cache("all", ws, keys=ws.keys()); return ws
FinishRun ==
    /\ status = "running"
    /\ i = Len(steps)
    /\ cache' = SaveCache(cache, "all", ws, SetToSeq(DOMAIN ws))
    /\ status' = "done"
    /\ ws1' = IF runNo = 1 THEN ws ELSE ws1
    /\ UNCHANGED <<steps, flags, flags1, ws, i, err, calls, log, runNo, dvars, cvars, avars>>

\* Runner.run is called again, on the Workspace the loaders gave and the same out_dir
StartSecondRun ==
    /\ runNo = 1
    /\ status # "running"
    /\ runNo' = 2
    /\ flags' \in FlagSets
    /\ flags1' = flags
    /\ ws' = LoadedWorkspace
    /\ i' = 0
    /\ status' = "running"
    /\ err' = <<>>
    /\ calls' = [k \in 1..Len(steps) |-> 0]
    /\ log' = <<>>
    /\ UNCHANGED <<steps, cache, ws1, dvars, cvars, avars>>

Next == ProcessStep \/ FinishRun \/ StartSecondRun

Spec == Init /\ [][Next]_vars

\* the blob is damaged
Damaged(data) ==
    \/ Unreadable(data)
    \/ \E k \in DOMAIN data : data[k].form = "t_x_mismatched"

\* between two runs one cache file is damaged (a write cut short, a file replaced):
\* the blob becomes unreadable, or one of its series gets arrays of different lengths
CorruptBlob ==
    /\ runNo = 1
    /\ status # "running"
    /\ \A b \in DOMAIN cache : ~Damaged(cache[b])
    /\ \E blob \in DOMAIN cache :
          /\ \/ cache' = [cache EXCEPT ![blob] = UnreadableBlob]
             \/ \E k \in DOMAIN cache[blob] :
                   /\ cache[blob][k].form = "t_x"
                   /\ cache' = [cache EXCEPT ![blob][k] = Mismatched(@)]
    /\ UNCHANGED <<steps, flags, flags1, ws, i, status, err, calls, log, runNo, ws1,
                   dvars, cvars, avars>>

NextFaulty == Next \/ CorruptBlob

\* the Runner with cache files that can be damaged between the runs
SpecFaulty == Init /\ [][NextFaulty]_vars

(***************************************************************************)
(* Claims about Runner.run                                                 *)
(***************************************************************************)
AbsentInputs(step, w) == Range(step.inputs) \ DOMAIN w

\* C1 (as stated): a run with write_cache followed by a run with read_cache on the
\* same initial Workspace invokes no step.run in the second run and returns a
\* Workspace equal to the first run's, key by key and artifact by artifact.
C1_CachedRerunIdentical ==
    (runNo = 2 /\ status = "done" /\ ws1 # EmptyMap
        /\ flags1.write_cache /\ flags.read_cache)
    => /\ \A p \in DOMAIN calls : calls[p] = 0
       /\ ws = ws1

\* C2: the steps are processed in list order, one after the other, and step.run of
\* each step is invoked at most once in a run.
C2_StepsInListOrder ==
    /\ Len(log) = i
    /\ \A k \in 1..Len(log) : log[k].pos = k
    /\ \A p \in DOMAIN calls : calls[p] <= 1
    /\ \A p \in DOMAIN calls :
          calls[p] = 1 <=> (p <= Len(log) /\ log[p].how = "run")

C2_Witness ==
    /\ Len(log) >= 3
    /\ log[1].how = "run"
    /\ log[3].how = "run"
    /\ calls[3] = 1

\* C3: a step that is not served from cache and has a declared input absent from
\* the Workspace aborts the run with an error naming exactly the absent declared
\* inputs; step.run is not invoked, no later step is processed and the Workspace
\* is as it was before the step.
C3_MissingInputsFatal ==
    /\ \A k \in 1..Len(log) :
          LET e == log[k]
              absent == AbsentInputs(steps[e.pos], e.pre)
          IN /\ (e.how # "load" /\ absent # {}) => e.how = "missing"
             /\ e.how = "missing" =>
                   /\ absent # {}
                   /\ k = Len(log)
                   /\ i = k
                   /\ status = "missing_inputs"
                   /\ Range(err) = absent
                   /\ ws = e.pre
                   /\ calls[e.pos] = 0
    /\ status = "missing_inputs" => (log # <<>> /\ log[Len(log)].how = "missing")

C3_Witness ==
    /\ status = "missing_inputs"
    /\ Len(log) = 3
    /\ log[2].how = "run"
    /\ err = <<"accel_chunks/lis2">>

\* C4 (as stated): a step is skipped (cache hit) only if read_cache is set and the
\* cache holds a blob for every declared output of the step, and after a skip every
\* declared output is in the Workspace.
C4_HitOnlyWithAllOutputs ==
    \A k \in 1..Len(log) :
        LET e == log[k]
            step == steps[e.pos]
            blob == StepBlobName(e.pos - 1, step)
        IN e.how = "load" =>
              /\ flags.read_cache
              /\ blob \in DOMAIN cache
              /\ \A o \in Range(step.outputs) : o \in DOMAIN cache[blob] /\ o \in DOMAIN ws

\* C5 (as stated): with make_plots set, a failure while rendering never aborts
\* the run.
C5_RenderNeverAborts ==
    flags.make_plots => status # "render_error"

\* C15 (as stated): with read_cache set, a step whose cache blob is unreadable or
\* does not have the expected shape does not abort the run: the step is computed
\* (after the usual input check) and the run goes on with the recomputed outputs.
C15_CorruptCacheRecomputed ==
    /\ status # "cache_error"
    /\ \A k \in 1..Len(log) :
          LET step == steps[log[k].pos]
              blob == StepBlobName(log[k].pos - 1, step)
          IN (/\ flags.read_cache
              /\ step.outputs # <<>>
              /\ blob \in DOMAIN cache
              /\ Damaged(cache[blob]))
             => /\ log[k].how \in {"run", "missing"}
                /\ log[k].how = "run" => \A o \in Range(step.outputs) : o \in DOMAIN ws

\* C16 (as stated): in a run with write_cache disabled no cache blob is created or
\* modified at any point of the run, including at its end.
C16_NoWriteWhenDisabled ==
    [][(status = "running" /\ ~flags.write_cache) => cache' = cache]_vars

\* C18: processing one step, by step.run or by a cache hit, changes the Workspace
\* only at the step's declared outputs: every other key keeps its artifact, no
\* key is deleted and no key outside the declared outputs is added
C18_OnlyDeclaredOutputsChange ==
    [][(status = "running" /\ i < Len(steps) /\ i' = i + 1) =>
          LET outs == Range(steps[StepAt(i)].outputs)
          IN /\ DOMAIN ws \subseteq DOMAIN ws'
             /\ DOMAIN ws' \subseteq DOMAIN ws \cup outs
             /\ \A k \in DOMAIN ws \ outs : ws'[k] = ws[k]]_vars

\* the second run took get_rel_accel's two outputs from the cache the first run
\* wrote when it computed them, with the loaders' keys and the earlier outputs
\* still in the Workspace
C18_Witness ==
    /\ steps = PipelineSteps
    /\ runNo = 2
    /\ flags1.write_cache
    /\ "accel/relative" \in DOMAIN ws1
    /\ i = 8
    /\ log[8].how = "load"
    /\ "accel/relative" \notin DOMAIN log[8].pre
    /\ ws["accel/relative"] # ws1["accel/relative"]
    /\ ws["accel/lis2_in_lis1"].kind = "TimeSeries"
    /\ \A k \in DOMAIN log[8].pre : ws[k] = log[8].pre[k]
    /\ {"accel/lis1", "accel/lis2", "mag", "angle", "accel_lp/lis1"} \subseteq DOMAIN ws

\* keys the loaders of pipeline.main supply
LoaderKeys == {"accel/lis1", "accel/lis2", "mag", "angle"}

\* the declared outputs of the steps strictly before position k
EarlierOutputs(list, k) == UNION {Range(list[j].outputs) : j \in 1..(k - 1)}

DependencyValid(list) ==
    \A k \in 1..Len(list) :
        Range(list[k].inputs) \subseteq LoaderKeys \cup EarlierOutputs(list, k)

\* C20: every declared input of every step of pipeline.main's list is a loader
\* key or a declared output of a strictly earlier step, and a run of that list
\* with cache reading disabled never fails the missing-input check
C20_PipelineDependencyValid ==
    /\ DependencyValid(PipelineSteps)
    /\ (steps = PipelineSteps /\ ~flags.read_cache) => status # "missing_inputs"

\* pipeline.main's list ran to its end with cache reading disabled, every step
\* computed once
C20_Witness ==
    /\ steps = PipelineSteps
    /\ ~flags.read_cache
    /\ status = "done"
    /\ \A k \in 1..Len(steps) : calls[k] = 1
    /\ "cal_chunk_slices" \in DOMAIN ws

(***************************************************************************)
(* FindCalibrationChunks (fusion.py)                                       *)
(***************************************************************************)
\* no Runner.run is in progress
RunnerIdle ==
    /\ steps = <<>>
    /\ flags = [write_cache |-> FALSE, read_cache |-> FALSE, make_plots |-> FALSE]
    /\ flags1 = flags
    /\ ws = EmptyMap
    /\ cache = EmptyMap
    /\ i = 0
    /\ status = "idle"
    /\ err = <<>>
    /\ calls = <<>>
    /\ log = <<>>
    /\ runNo = 0
    /\ ws1 = EmptyMap

\* class attributes of FindCalibrationChunks
bump_mag_min == 1000
still_a_max == 1000
bump_dx_min == 20
skips == 3

\* time is counted in ticks of 0.01 s, the step np.diff prepends before t[0]
TicksPerSecond == 100

\* length of the traces the detector is run on
TraceLen == 13
\* longest acceleration pulse put into a trace
MaxPulse == 4

FsChoices == {20}
MagLevels == {50}
PeakValues == {1049, 1050, 1200}
PulseAmps == {1, 2}
Rebounds == {0, 6}
Baselines == {40, 100}

\* magnetometer trace: a quiet level with one sample at the peak value
MagTrace(level, at, peak) == [k \in 1..TraceLen |-> IF k - 1 = at THEN peak ELSE level]

\* acceleration trace: zero but for a pulse of amplitude amp on [at, at + width),
\* followed by a braking pulse of amplitude -rebound of the same width
AccelTrace(at, width, amp, rebound) ==
    [k \in 1..TraceLen |->
        IF k - 1 >= at /\ k - 1 < at + width THEN amp
        ELSE IF k - 1 >= at + width /\ k - 1 < at + 2 * width THEN -rebound
        ELSE 0]

\* still_len = int(still_len_s * fs), bump_len = int(bump_len_s * fs),
\* stride = int(stride_s * fs) with still_len_s = 0.1, bump_len_s = 0.3, stride_s = 0.05
still_len == fs_hz \div 10
bump_len == (3 * fs_hz) \div 10
stride == fs_hz \div 20
chunk_len == still_len + bump_len

\* a_mms = accel[:, 0] * 1000
a_mms == [k \in 1..Len(accel) |-> accel[k] * 1000]

\* dt_s = np.diff(t, prepend=t[0] - 0.01) for uniformly sampled t, in ticks
dt_s == [k \in 1..Len(mag) |-> IF k = 1 THEN 1 ELSE TicksPerSecond \div fs_hz]

\* the sample indices (0-based) a slice selects
\* chunk_r = slice(i, i + chunk_len)
chunk_r(p) == [k \in 1..chunk_len |-> p + k - 1]
\* chunk_l = slice(i + chunk_len, i, -1)
chunk_l(p) == [k \in 1..chunk_len |-> p + chunk_len - (k - 1)]

Chunk(p, dir) == IF dir = "r" THEN chunk_r(p) ELSE chunk_l(p)

\* x[chunk_i][still_slice] and x[chunk_i][bump_slice]
StillOf(x, c) == [k \in 1..still_len |-> x[c[k] + 1]]
BumpOf(x, c) == [k \in 1..bump_len |-> x[c[still_len + k] + 1]]

Abs(x) == IF x < 0 THEN -x ELSE x

MaxSeq(s) == CHOOSE m \in Range(s) : \A x \in Range(s) : x <= m

\* np.cumsum
RECURSIVE CumSum(_)
CumSum(s) ==
    IF s = <<>> THEN <<>>
    ELSE LET front == CumSum(SubSeq(s, 1, Len(s) - 1))
         IN Append(front, (IF front = <<>> THEN 0 ELSE front[Len(front)]) + s[Len(s)])

\* a_intint = np.cumsum(np.cumsum(a_bump * dt_bump) * dt_bump), in mm * ticks^2 / s^2
AIntInt(c) ==
    LET a_bump == BumpOf(a_mms, c)
        dt_bump == BumpOf(dt_s, c)
        a_int == CumSum([k \in 1..bump_len |-> a_bump[k] * dt_bump[k]])
    IN CumSum([k \in 1..bump_len |-> a_int[k] * dt_bump[k]])

\* if np.mean(mag_still) > still_mag_max: continue
MagStillRejects(mag_still) ==
    SumSeq(mag_still) > mag_baseline * Len(mag_still)

\* (mutant of AStillRejects) the ceiling itself is rejected
AStillRejectsAtCeiling(a_still) ==
    MaxSeq([k \in 1..Len(a_still) |-> Abs(a_still[k])]) >= still_a_max

\* if max(abs(a_still)) > self.still_a_max: continue
AStillRejects(a_still) ==
    MaxSeq([k \in 1..Len(a_still) |-> Abs(a_still[k])]) > still_a_max

\* (mutant of MagBumpRejects) a peak equal to the threshold is rejected
MagBumpRejectsAtThreshold(mag_bump, mag_still) ==
    MaxSeq(mag_bump) * Len(mag_still) <= SumSeq(mag_still) + bump_mag_min * Len(mag_still)

\* if max(mag_bump) < mag_still_mean + self.bump_mag_min: continue
MagBumpRejects(mag_bump, mag_still) ==
    MaxSeq(mag_bump) * Len(mag_still) < SumSeq(mag_still) + bump_mag_min * Len(mag_still)

\* if max(a_intint) < self.bump_dx_min: continue
DxRejects(a_intint) ==
    MaxSeq(a_intint) < bump_dx_min * TicksPerSecond * TicksPerSecond

\* the body of "for chunk_i in chunks": the check that rejects the candidate,
\* or "recorded"
Examine(c) ==
    IF MagStillRejects(StillOf(mag, c)) THEN "mag_still"
    ELSE IF AStillRejects(StillOf(a_mms, c)) THEN "a_still"
    ELSE IF MagBumpRejects(BumpOf(mag, c), StillOf(mag, c)) THEN "mag_bump"
    ELSE IF DxRejects(AIntInt(c)) THEN "dx"
    ELSE "recorded"

\* the two candidates of a scan position, in the order of chunks = [chunk_r, chunk_l]
Candidates(p) ==
    <<[i |-> p, dir |-> "r", stage |-> Examine(chunk_r(p))],
      [i |-> p, dir |-> "l", stage |-> Examine(chunk_l(p))]>>

\* skip = self.skips once a candidate of the position was recorded
SkipAfter(found) == IF found # <<>> THEN skips ELSE 0

InitDet ==
    /\ RunnerIdle
    /\ ChunkerIdle
    /\ StepsIdle
    /\ fs_hz \in FsChoices
    /\ mag_baseline \in Baselines
    /\ \E level \in MagLevels, at \in 0..TraceLen, peak \in PeakValues :
          mag = MagTrace(level, at, peak)
    /\ \E at \in 0..(TraceLen - 1), width \in 1..MaxPulse, amp \in PulseAmps,
          rebound \in Rebounds :
          accel = AccelTrace(at, width, amp, rebound)
    /\ scan_i = 0
    /\ skip = 0
    /\ slices = <<>>
    /\ a_intint_chunks = <<>>
    /\ examined = <<>>
    /\ dstatus = "scanning"

\* one iteration of "for i in range(0, a_mms.shape[0] - chunk_len, stride)" with skip > 0
SkipPosition ==
    /\ dstatus = "scanning"
    /\ scan_i < Len(a_mms) - chunk_len
    /\ skip > 0
    /\ skip' = skip - 1
    /\ scan_i' = scan_i + stride
    /\ UNCHANGED <<fs_hz, mag, accel, mag_baseline, slices, a_intint_chunks, examined,
                   dstatus, rvars, cvars, avars>>

\* one iteration with skip = 0: both candidates are examined
ScanPosition ==
    /\ dstatus = "scanning"
    /\ scan_i < Len(a_mms) - chunk_len
    /\ skip = 0
    /\ LET cands == Candidates(scan_i)
           found == SelectSeq(cands, LAMBDA e : e.stage = "recorded")
       IN /\ examined' = examined \o cands
          /\ slices' = slices \o [k \in 1..Len(found) |-> [i |-> found[k].i, dir |-> found[k].dir]]
          /\ a_intint_chunks' = a_intint_chunks \o
                [k \in 1..Len(found) |-> AIntInt(Chunk(found[k].i, found[k].dir))]
          /\ skip' = SkipAfter(found)
    /\ scan_i' = scan_i + stride
    /\ UNCHANGED <<fs_hz, mag, accel, mag_baseline, dstatus, rvars, cvars, avars>>

\* after the loop: the arrays are built and stored; a_int_chunk_arr.shape[1] raises
\* IndexError when nothing was recorded
FinishScan ==
    /\ dstatus = "scanning"
    /\ scan_i >= Len(a_mms) - chunk_len
    /\ dstatus' = IF slices = <<>> THEN "error" ELSE "done"
    /\ UNCHANGED <<fs_hz, mag, accel, mag_baseline, scan_i, skip, slices, a_intint_chunks,
                   examined, rvars, cvars, avars>>

NextDet == SkipPosition \/ ScanPosition \/ FinishScan

SpecDet == InitDet /\ [][NextDet]_vars

(***************************************************************************)
(* Claims about FindCalibrationChunks                                      *)
(***************************************************************************)
\* sum of f[1] .. f[n]
RECURSIVE SumTo(_, _)
SumTo(f, n) == IF n = 0 THEN 0 ELSE f[n] + SumTo(f, n - 1)

\* the candidate's windows, as sample indices (0-based)
StillWindow(e) == LET c == Chunk(e.i, e.dir) IN [k \in 1..still_len |-> c[k]]
BumpWindow(e) == LET c == Chunk(e.i, e.dir) IN [k \in 1..bump_len |-> c[still_len + k]]

StillMagSum(e) ==
    LET w == StillWindow(e) IN SumTo([k \in 1..still_len |-> mag[w[k] + 1]], still_len)
BumpMagPeak(e) ==
    LET w == BumpWindow(e) IN MaxSeq([k \in 1..bump_len |-> mag[w[k] + 1]])
StillQuiet(e) ==
    LET w == StillWindow(e)
    IN \A k \in 1..still_len : Abs(accel[w[k] + 1] * 1000) <= still_a_max

\* velocity and displacement after n samples of the bump window
Velocity(e, n) ==
    LET w == BumpWindow(e)
    IN SumTo([k \in 1..bump_len |-> accel[w[k] + 1] * 1000 * dt_s[w[k] + 1]], n)
Displacement(e, n) ==
    LET w == BumpWindow(e)
    IN SumTo([k \in 1..bump_len |-> Velocity(e, k) * dt_s[w[k] + 1]], n)

\* C6 (as stated): once a candidate qualified at a scan position no further event is
\* recorded at that position or at the next `skips` stride positions: any two
\* recorded events come from positions at least skips + 1 strides apart.
C6_EventsSkipsApart ==
    \A a, b \in 1..Len(slices) :
        a < b => slices[b].i - slices[a].i >= (skips + 1) * stride

\* C7: an examined candidate is recorded iff (1) still-window mean magnetometer
\* value <= baseline, (2) still-window max |acceleration| <= ceiling, (3) bump-window
\* max magnetometer value >= still mean + minimum bump delta, and (4) the doubly
\* summed bump-window acceleration reaches the minimum displacement within the window.
C7_RecordedIffFourConditions ==
    \A k \in 1..Len(examined) :
        LET e == examined[k] IN
        (/\ e.stage = "recorded"
         /\ [i |-> e.i, dir |-> e.dir] \in Range(slices))
        <=>
        (/\ StillMagSum(e) <= mag_baseline * still_len
         /\ StillQuiet(e)
         /\ BumpMagPeak(e) * still_len >= StillMagSum(e) + bump_mag_min * still_len
         /\ \E n \in 1..bump_len :
               Displacement(e, n) >= bump_dx_min * TicksPerSecond * TicksPerSecond)

C7_Witness ==
    /\ \E k \in 1..Len(examined) :
          /\ examined[k].stage = "recorded"
          /\ Displacement(examined[k], bump_len)
                < bump_dx_min * TicksPerSecond * TicksPerSecond
    /\ \E k \in 1..Len(examined) : examined[k].stage = "dx"
    /\ \E k \in 1..Len(examined) : examined[k].stage = "a_still"

PassesMagnetic(e) == e.stage \in {"dx", "recorded"}

\* the candidates of the scenario: baseline 100, still-window mean 50, still window
\* quiet enough for the magnetic conditions to decide
ScenarioCandidate(e) ==
    /\ mag_baseline = 100
    /\ StillMagSum(e) = 50 * still_len
    /\ StillQuiet(e)

\* C8 (as stated): with baseline 100 and bump delta 1000, a candidate of still mean
\* 50 passes the magnetic conditions with bump peak 1200 and does not with peak 1050.
C8_Peak1050Rejected ==
    \A k \in 1..Len(examined) :
        LET e == examined[k] IN
        ScenarioCandidate(e) =>
            /\ BumpMagPeak(e) = 1200 => PassesMagnetic(e)
            /\ BumpMagPeak(e) = 1050 => e.stage = "mag_bump"

\* C8 (amended): with baseline 100 and bump delta 1000, a candidate of still mean 50
\* passes the magnetic conditions with bump peak 1200 and also with peak 1050 (the
\* test is peak >= still mean + delta); it does not pass with peak 1049.
C8_Peak1050Accepted ==
    \A k \in 1..Len(examined) :
        LET e == examined[k] IN
        ScenarioCandidate(e) =>
            /\ BumpMagPeak(e) = 1200 => PassesMagnetic(e)
            /\ BumpMagPeak(e) = 1050 => PassesMagnetic(e)
            /\ BumpMagPeak(e) = 1049 => e.stage = "mag_bump"

C8_Witness ==
    \E k \in 1..Len(examined) :
        /\ ScenarioCandidate(examined[k])
        /\ BumpMagPeak(examined[k]) = 1050
        /\ examined[k].stage = "recorded"

\* C17 (as stated): at every scan position i the second candidate examined is the
\* time-reversed mirror of the forward window: the same sample indices
\* i .. i + chunk_len - 1, in reverse order.
C17_MirrorSameSamples ==
    \A k \in 1..Len(examined) :
        examined[k].dir = "l" =>
            LET p == examined[k].i
                mirror == Chunk(p, "l")
            IN /\ Len(mirror) = chunk_len
               /\ {mirror[j] : j \in 1..chunk_len} = p..(p + chunk_len - 1)
               /\ \A j \in 1..chunk_len : mirror[j] = p + chunk_len - j

(***************************************************************************)
(* ChunkStep (classes/step.py), ChunkedTimeSeries.iter_chunks              *)
(* (classes/time_series.py) and FilterChunkPairs (accel_rotation.py)       *)
(***************************************************************************)
\* longest series handed to ChunkStep, and longest span
MaxSamples == 3
MaxSpanLen == 2

\* thresholds of FilterChunkPairs.run: conf_thresh = 0.98 in hundredths,
\* diff_thresh = 0.5 in tenths
conf_thresh_pct == 98
diff_thresh_tenths == 5

\* the acceleration samples the series are made of (rows of x); their norms are integers
Samples == {<<1, 0, 0>>, <<2, 0, 0>>, <<0, 1, 0>>, <<0, 0, 0>>}

Min(a, b) == IF a <= b THEN a ELSE b

\* [(i, i + span_len) for i in range(0, len(ts.x), span_len)]
RangeSpans(n, L) == [k \in 1..((n + L - 1) \div L) |-> <<(k - 1) * L, (k - 1) * L + L>>]

\* if (spans[-1][1] - spans[-1][0]) < span_len: spans = spans[:-1]
DropShortLast(sp, L) ==
    IF sp[Len(sp)][2] - sp[Len(sp)][1] < L THEN SubSeq(sp, 1, Len(sp) - 1) ELSE sp

\* ChunkStep.run raises (spans[-1] of an empty list)
ChunkStepRaises(n, L) == RangeSpans(n, L) = <<>>

\* the spans of the ChunkedTimeSeries ChunkStep.run stores
ChunkSpans(n, L) == DropShortLast(RangeSpans(n, L), L)

\* ChunkedTimeSeries.iter_chunks: x[i0:i1] of every span (a slice stops at the end of x)
IterChunks(x, sp) == [k \in 1..Len(sp) |-> SubSeq(x, sp[k][1] + 1, Min(sp[k][2], Len(x)))]

Dot(u, v) == u[1] * v[1] + u[2] * v[2] + u[3] * v[3]

\* np.linalg.norm of a row (the rows used have integer norms)
Norm(v) == CHOOSE n \in 0..Dot(v, v) : n * n = Dot(v, v)

RECURSIVE ProdSeq(_)
ProdSeq(s) == IF s = <<>> THEN 1 ELSE Head(s) * ProdSeq(Tail(s))

\* norm_samples = chunk / norm(chunk) holds NaN rows when a row has norm 0, and
\* then conf = norm(mean(norm_samples)) is NaN
ConfIsNaN(chunk) == \E k \in 1..Len(chunk) : Norm(chunk[k]) = 0

\* the sum of the unit rows of a chunk, times the product d of the row norms
ScaledUnitSum(chunk) ==
    LET d == ProdSeq([k \in 1..Len(chunk) |-> Norm(chunk[k])])
        part(c) == SumSeq([k \in 1..Len(chunk) |-> chunk[k][c] * (d \div Norm(chunk[k]))])
    IN <<part(1), part(2), part(3)>>

\* if conf < conf_thresh (any comparison with NaN is False)
ConfRejects(chunk) ==
    /\ ~ConfIsNaN(chunk)
    /\ LET d == ProdSeq([k \in 1..Len(chunk) |-> Norm(chunk[k])])
           w == ScaledUnitSum(chunk)
       IN Dot(w, w) * 100 * 100
            < conf_thresh_pct * conf_thresh_pct * Len(chunk) * Len(chunk) * d * d

\* np.sum(np.linalg.norm(chunk, axis=1)); mean_accel is this over len(chunk)
NormSum(chunk) == SumSeq([k \in 1..Len(chunk) |-> Norm(chunk[k])])

\* if (max(mean_accels) - min(mean_accels)) > diff_thresh
DiffRejects(ca, cb) ==
    10 * Abs(NormSum(ca) * Len(cb) - NormSum(cb) * Len(ca))
        > diff_thresh_tenths * Len(ca) * Len(cb)

\* the for/else of FilterChunkPairs.run for one aligned pair: whether it is appended
PairAppended(ca, cb) ==
    IF ConfRejects(ca) THEN FALSE
    ELSE IF ConfRejects(cb) THEN FALSE
    ELSE IF DiffRejects(ca, cb) THEN FALSE
    ELSE TRUE

\* zip(a.iter_chunks(), b.iter_chunks())
ZipLen(ca, cb) == Min(Len(ca), Len(cb))

\* get_pair_stats raises: np.mean(..., axis=2) of an empty array, or np.asarray of
\* chunks of different shapes
GetPairStatsRaises(ca, cb, kept) ==
    \/ kept = <<>>
    \/ Cardinality({Len(ca[kept[k]]) : k \in 1..Len(kept)}
                   \cup {Len(cb[kept[k]]) : k \in 1..Len(kept)}) # 1

\* the second sensor's series: the first one with at most one row replaced
Replaced(x, at, row) == [k \in 1..Len(x) |-> IF k = at THEN row ELSE x[k]]

InitChunk ==
    /\ RunnerIdle
    /\ DetectorIdle
    /\ StepsIdle
    /\ span_len \in 1..MaxSpanLen
    /\ \E n \in 0..MaxSamples :
         \E x \in [1..n -> Samples], at \in 0..n, row \in Samples :
            base = [lis1 |-> x, lis2 |-> Replaced(x, at, row)]
    /\ spans = EmptyMap
    /\ still_pairs = <<>>
    /\ filtered_pairs = <<FALSE, <<>> >>
    /\ filtered_pairs_col = <<FALSE, <<>> >>
    /\ cpc = "chunk_lis1"

\* ChunkStep.run of chunk_lis1, then of chunk_lis2
ChunkStepRun ==
    /\ cpc \in {"chunk_lis1", "chunk_lis2"}
    /\ LET sensor == IF cpc = "chunk_lis1" THEN "lis1" ELSE "lis2"
           n == Len(base[sensor])
       IN IF ChunkStepRaises(n, span_len)
          THEN /\ cpc' = "error"
               /\ spans' = spans
          ELSE /\ cpc' = IF cpc = "chunk_lis1" THEN "chunk_lis2" ELSE "filter_pairs"
               /\ spans' = Put(spans, sensor, ChunkSpans(n, span_len))
    /\ UNCHANGED <<base, span_len, still_pairs, filtered_pairs, filtered_pairs_col, rvars, dvars, avars>>

\* FilterChunkPairs.run on the two ChunkedTimeSeries
FilterChunkPairsRun ==
    /\ cpc = "filter_pairs"
    /\ LET ca == IterChunks(base.lis1, spans.lis1)
           cb == IterChunks(base.lis2, spans.lis2)
           kept == SelectSeq([k \in 1..ZipLen(ca, cb) |-> k],
                             LAMBDA k : PairAppended(ca[k], cb[k]))
       IN /\ still_pairs' = kept
          /\ IF GetPairStatsRaises(ca, cb, kept)
             THEN /\ cpc' = "error"
                  /\ filtered_pairs' = filtered_pairs
             ELSE /\ cpc' = "done"
                  /\ filtered_pairs' = <<TRUE, kept>>
    /\ UNCHANGED <<base, span_len, spans, filtered_pairs_col, rvars, dvars, avars>>

NextChunk == ChunkStepRun \/ FilterChunkPairsRun

SpecChunk == InitChunk /\ [][NextChunk]_vars

(***************************************************************************)
(* Claims about ChunkStep and FilterChunkPairs                             *)
(***************************************************************************)
\* C9 (as stated): the spans ChunkStep produces are in increasing order, do not
\* overlap, all have length span_len and lie within [0, N); every chunk iter_chunks
\* yields has span_len samples and there are floor(N / span_len) of them.
C9_SpansFullAndInside ==
    \A s \in DOMAIN spans :
        LET sp == spans[s]
            n == Len(base[s])
            chunks == IterChunks(base[s], sp)
        IN /\ Len(sp) = n \div span_len
           /\ \A k \in 1..Len(sp) :
                 /\ sp[k][2] - sp[k][1] = span_len
                 /\ 0 <= sp[k][1]
                 /\ sp[k][2] <= n
                 /\ k > 1 => sp[k - 1][2] <= sp[k][1]
                 /\ Len(chunks[k]) = span_len

\* FilterChunkPairs.run has returned or raised
FilterPairsOver == cpc = "done" \/ (cpc = "error" /\ DOMAIN spans = {"lis1", "lis2"})

\* the pair at position k is in the stored output
PairKept(k) == filtered_pairs[1] /\ k \in Range(filtered_pairs[2])

\* the direction confidence of a chunk is a number and at least 0.98
ConfAtLeastThreshold(chunk) ==
    /\ \A k \in 1..Len(chunk) : Dot(chunk[k], chunk[k]) # 0
    /\ LET d == ProdSeq([k \in 1..Len(chunk) |-> Norm(chunk[k])])
           w == ScaledUnitSum(chunk)
       IN 100 * 100 * Dot(w, w) >= 98 * 98 * Len(chunk) * Len(chunk) * d * d

\* the chunks' mean sample norms differ by at most 0.5
MagnitudesWithinHalf(ca, cb) ==
    2 * Abs(NormSum(ca) * Len(cb) - NormSum(cb) * Len(ca)) <= Len(ca) * Len(cb)

\* C10 (as stated): FilterChunkPairs keeps an aligned pair iff both chunks' direction
\* confidence is >= 0.98 and their mean sample-norm magnitudes differ by <= 0.5.
C10_KeptIffConfidentAndMatched ==
    FilterPairsOver =>
        LET ca == IterChunks(base.lis1, spans.lis1)
            cb == IterChunks(base.lis2, spans.lis2)
        IN \A k \in 1..ZipLen(ca, cb) :
              PairKept(k) <=> /\ ConfAtLeastThreshold(ca[k])
                              /\ ConfAtLeastThreshold(cb[k])
                              /\ MagnitudesWithinHalf(ca[k], cb[k])

(***************************************************************************)
(* FilterColinearPairs (accel_rotation.py)                                 *)
(***************************************************************************)
\* most pairs handed to the pair filters
MaxPairs == 3

\* the time-mean directions the first sensor's chunks are made of (rows with
\* integer norms): +x, -x, +y, two directions 16.26 degrees apart, and no signal
Directions == {<<1, 0, 0>>, <<-1, 0, 0>>, <<0, 1, 0>>, <<3, 4, 0>>, <<4, 3, 0>>, <<0, 0, 0>>}

\* a row of the second sensor that differs from the first sensor's
MismatchRows == {<<2, 0, 0>>}

\* the threshold of keep = ang_deg > 10, as cos^2(10 deg) = 0.96985 in 1/100000
cos2_10deg == 96985

\* np.sum(chunk_a.x, axis=0); a_mean is this over len(chunk_a)
RowSum(chunk) ==
    <<SumSeq([k \in 1..Len(chunk) |-> chunk[k][1]]),
      SumSeq([k \in 1..Len(chunk) |-> chunk[k][2]]),
      SumSeq([k \in 1..Len(chunk) |-> chunk[k][3]])>>

\* a_mean / np.linalg.norm(a_mean) is a row of NaN when a_mean is the zero vector
DirIsNaN(chunk) == Dot(RowSum(chunk), RowSum(chunk)) = 0

\* a common multiple of the numbers of a set
RECURSIVE CommonMultiple(_)
CommonMultiple(S) ==
    IF S = {} THEN 1 ELSE LET n == CHOOSE n \in S : TRUE IN n * CommonMultiple(S \ {n})

RECURSIVE Gcd(_, _)
Gcd(a, b) == IF b = 0 THEN a ELSE Gcd(b, a % b)

\* the shortest integer vector along a_mean (a_mean is RowSum over len(chunk_a), and
\* scaling a vector does not change its unit vector)
Direction(chunk) ==
    LET s == RowSum(chunk)
        g == Gcd(Abs(s[1]), Gcd(Abs(s[2]), Abs(s[3])))
    IN <<s[1] \div g, s[2] \div g, s[3] \div g>>

\* a_mean / np.linalg.norm(a_mean), times L (L a multiple of the norm of Direction)
ScaledUnit(chunk, L) ==
    LET p == Direction(chunk)
        q == L \div Norm(p)
    IN <<p[1] * q, p[2] * q, p[3] * q>>

VecAdd(u, v) == <<u[1] + v[1], u[2] + v[2], u[3] + v[3]>>

RECURSIVE VecSum(_)
VecSum(vs) == IF vs = <<>> THEN <<0, 0, 0>> ELSE VecAdd(Head(vs), VecSum(Tail(vs)))

\* (mutant of AngleOverThreshold) the threshold is 15 degrees, cos^2 = 0.93301
AngleOverFifteen(u, T, L) ==
    IF Dot(T, T) = 0 THEN TRUE
    ELSE LET d == Dot(u, T)
         IN d < 0 \/ d * d * 100000 < 93301 * L * L * Dot(T, T)

\* ang_deg > 10 for the row u / L of a_u, with mean_dir = normalize_rows(T / (K L)):
\* cosang = clip(u . T / (L |T|)), and 0 when the mean is the zero vector (its norm
\* is raised to eps); arccos decreases, so ang_deg > 10 iff cosang < cos(10 deg)
AngleOverThreshold(u, T, L) ==
    IF Dot(T, T) = 0 THEN TRUE
    ELSE LET d == Dot(u, T)
         IN d < 0 \/ d * d * 100000 < cos2_10deg * L * L * Dot(T, T)

\* keep = ang_deg > 10, one entry per pair, from the first members of the pairs;
\* a NaN row of a_u makes mean_dir, cosang and ang_deg NaN, and NaN > 10 is False
ColinearKeep(chunks) ==
    IF \E k \in 1..Len(chunks) : DirIsNaN(chunks[k])
    THEN [k \in 1..Len(chunks) |-> FALSE]
    ELSE LET L == CommonMultiple({Norm(Direction(chunks[k])) : k \in 1..Len(chunks)})
             a_u == [k \in 1..Len(chunks) |-> ScaledUnit(chunks[k], L)]
             T == VecSum(a_u)
         IN [k \in 1..Len(chunks) |-> AngleOverThreshold(a_u[k], T, L)]

\* FilterColinearPairs.run raises: normalize_rows of the 1-D mean of an empty a_u
ColinearRaises(pairs) == pairs = <<>>

\* (mutant of FiltPairs) each kept pair is put at the front of the list
FiltPairsNewestFirst(pairs, keep) ==
    LET kept == SelectSeq([k \in 1..Len(pairs) |-> k], LAMBDA k : keep[k])
    IN [j \in 1..Len(kept) |-> pairs[kept[Len(kept) + 1 - j]]]

\* for i in range(len(pairs)): if keep[i]: filt_pairs.append(pairs[i])
FiltPairs(pairs, keep) ==
    LET kept == SelectSeq([k \in 1..Len(pairs) |-> k], LAMBDA k : keep[k])
    IN [j \in 1..Len(kept) |-> pairs[kept[j]]]

\* every direction repeated n times: a series whose chunks of n samples are steady
Steady(dirs, n) == [k \in 1..(Len(dirs) * n) |-> dirs[((k - 1) \div n) + 1]]

InitColinear ==
    /\ RunnerIdle
    /\ DetectorIdle
    /\ StepsIdle
    /\ span_len \in 1..MaxSpanLen
    /\ \E n \in 0..MaxPairs :
         \E dirs \in [1..n -> Directions], at \in 0..(n * span_len), row \in MismatchRows :
            base = [lis1 |-> Steady(dirs, span_len),
                    lis2 |-> Replaced(Steady(dirs, span_len), at, row)]
    /\ spans = EmptyMap
    /\ still_pairs = <<>>
    /\ filtered_pairs = <<FALSE, <<>> >>
    /\ filtered_pairs_col = <<FALSE, <<>> >>
    /\ cpc = "chunk_lis1"

\* FilterColinearPairs.run on the list FilterChunkPairs stored
FilterColinearPairsRun ==
    /\ cpc = "done"
    /\ LET pairs == filtered_pairs[2]
           ca == IterChunks(base.lis1, spans.lis1)
           keep == ColinearKeep([k \in 1..Len(pairs) |-> ca[pairs[k]]])
       IN IF ColinearRaises(pairs)
          THEN /\ cpc' = "error"
               /\ filtered_pairs_col' = filtered_pairs_col
          ELSE /\ cpc' = "col_done"
               /\ filtered_pairs_col' = <<TRUE, FiltPairs(pairs, keep)>>
    /\ UNCHANGED <<base, span_len, spans, still_pairs, filtered_pairs, rvars, dvars, avars>>

NextColinear == ChunkStepRun \/ FilterChunkPairsRun \/ FilterColinearPairsRun

SpecColinear == InitColinear /\ [][NextColinear]_vars

(***************************************************************************)
(* Claims about FilterColinearPairs                                        *)
(***************************************************************************)
Cross(u, v) ==
    <<u[2] * v[3] - u[3] * v[2], u[3] * v[1] - u[1] * v[3], u[1] * v[2] - u[2] * v[1]>>

\* the first member of the input pair at position k of the colinearity filter
FirstMember(k) == IterChunks(base.lis1, spans.lis1)[filtered_pairs[2][k]]

\* every input pair's first member has a direction
DirectionsDefined == \A k \in 1..Len(filtered_pairs[2]) : RowSum(FirstMember(k)) # <<0, 0, 0>>

\* the sum of the unit vectors of the first members' time-means, times a common
\* multiple of the norms used: a vector along the aggregate direction
Aggregate ==
    LET n == Len(filtered_pairs[2])
        P == CommonMultiple({Norm(Direction(FirstMember(k))) : k \in 1..n})
    IN VecSum([k \in 1..n |->
                 LET p == Direction(FirstMember(k))
                     q == P \div Norm(p)
                 IN <<p[1] * q, p[2] * q, p[3] * q>>])

\* the angle between pair k's direction and the aggregate direction is above 10
\* degrees: obtuse or right, or sin^2 of it above sin^2(10 deg) = 0.03015
AngleAboveTen(k) ==
    LET p == Direction(FirstMember(k))
        A == Aggregate
        x == Cross(p, A)
    IN \/ Dot(p, A) <= 0
       \/ Dot(x, x) * 100000 > 3015 * Dot(p, p) * Dot(A, A)

PairKeptCol(k) == filtered_pairs_col[1] /\ filtered_pairs[2][k] \in Range(filtered_pairs_col[2])

\* C11: FilterColinearPairs keeps a pair iff the angle between the unit vector of
\* its first member's time-mean and the normalized mean of all input pairs' unit
\* vectors is above 10 degrees; a pair along the aggregate direction is dropped
\* and a pair at 90 degrees to it is kept.
C11_KeptIffAngleOverTen ==
    cpc = "col_done" =>
        \A k \in 1..Len(filtered_pairs[2]) :
            /\ PairKeptCol(k) <=> (DirectionsDefined /\ AngleAboveTen(k))
            /\ DirectionsDefined =>
                  LET s == RowSum(FirstMember(k)) IN
                  /\ (Cross(s, Aggregate) = <<0, 0, 0>> /\ Dot(s, Aggregate) > 0)
                        => ~PairKeptCol(k)
                  /\ (Dot(s, Aggregate) = 0) => PairKeptCol(k)

\* three pairs went in: one is 10.9 degrees off the aggregate direction and kept,
\* the two others are 5.4 degrees off and dropped
C11_Witness ==
    /\ cpc = "col_done"
    /\ filtered_pairs[2] = <<1, 2, 3>>
    /\ filtered_pairs_col[2] = <<3>>
    /\ RowSum(FirstMember(3)) # RowSum(FirstMember(1))
    /\ Dot(RowSum(FirstMember(3)), RowSum(FirstMember(1))) > 0

\* s is t with some entries left out: an increasing choice of positions of t
\* gives s
Subsequence(s, t) ==
    /\ Len(s) <= Len(t)
    /\ \E f \in [1..Len(s) -> 1..Len(t)] :
          /\ \A j \in 1..Len(s) : s[j] = t[f[j]]
          /\ \A j, k \in 1..Len(s) : j < k => f[j] < f[k]

\* the pairs zip(a.iter_chunks(), b.iter_chunks()) hands to FilterChunkPairs, each
\* named by its position
AlignedPairs ==
    [k \in 1..ZipLen(IterChunks(base.lis1, spans.lis1),
                     IterChunks(base.lis2, spans.lis2)) |-> k]

\* C19: the output of FilterChunkPairs is an order-preserving subsequence of the
\* aligned pairs and the output of FilterColinearPairs one of its input list: no
\* pair is duplicated or invented and survivors keep their relative order
C19_OutputsAreSubsequences ==
    /\ filtered_pairs[1] => Subsequence(filtered_pairs[2], AlignedPairs)
    /\ filtered_pairs_col[1] => Subsequence(filtered_pairs_col[2], filtered_pairs[2])

\* three pairs passed FilterChunkPairs and FilterColinearPairs dropped the middle
\* one: the first and the third survive, in that order
C19_Witness ==
    /\ cpc = "col_done"
    /\ filtered_pairs = <<TRUE, <<1, 2, 3>> >>
    /\ filtered_pairs_col = <<TRUE, <<1, 3>> >>

(***************************************************************************)
(* GetAccelTravelVector (accel_rotation.py)                                *)
(***************************************************************************)
\* longest series handed to GetAccelTravelVector, and largest chunk_size
MaxTravelSamples == 4
MaxChunkSize == 2

\* accel_threshold = 4.5, doubled
accel_threshold_x2 == 9

\* the relative-acceleration samples the series are made of
TravelRows == {<<-10, 0, 0>>, <<10, 0, 0>>, <<0, 0, 0>>}

VecScale(n, v) == <<n * v[1], n * v[2], n * v[3]>>

\* x = a.x - np.mean(a.x, axis=0), times len(a.x)
Centered(x) == [k \in 1..Len(x) |-> VecAdd(VecScale(Len(x), x[k]), VecScale(-1, RowSum(x)))]

\* the chunks kept by "if chunk.shape[0] == self.chunk_size", as first rows (1-based)
FullChunks(n, cs) == [k \in 1..(n \div cs) |-> (k - 1) * cs + 1]

\* np.mean(chunk, axis=0) of the chunk starting at row at, times chunk_size * len(x)
ChunkMeanScaled(x, at, cs) == RowSum(SubSeq(Centered(x), at, at + cs - 1))

\* chunk_net_magnitude > self.accel_threshold and np.mean(chunk, axis=0)[0] < 0
GoodChunk(x, at, cs) ==
    LET m == ChunkMeanScaled(x, at, cs)
    IN /\ 4 * Dot(m, m) > accel_threshold_x2 * accel_threshold_x2 * cs * cs * Len(x) * Len(x)
       /\ m[1] < 0

\* good_chunks, as the first rows of the chunks appended
GoodChunks(x, cs) == SelectSeq(FullChunks(Len(x), cs), LAMBDA at : GoodChunk(x, at, cs))

\* the exception GetAccelTravelVector.run raises, "" if it returns: np.mean(good_chunks,
\* axis=1) of np.array([]), an array of one dimension, raises numpy's AxisError
TravelRaises(x, cs) == IF GoodChunks(x, cs) = <<>> THEN "AxisError" ELSE ""

\* travel_unit_vector: the direction of np.mean(chunk_means, axis=0), as an integer
\* vector along it
TravelVector(x, cs) ==
    LET good == GoodChunks(x, cs)
    IN VecSum([k \in 1..Len(good) |-> ChunkMeanScaled(x, good[k], cs)])

\* scatter_points: one row per good chunk
ScatterPoints(x, cs) ==
    LET good == GoodChunks(x, cs)
    IN [k \in 1..Len(good) |-> ChunkMeanScaled(x, good[k], cs)]

InitTravel ==
    /\ RunnerIdle
    /\ DetectorIdle
    /\ ChunkerIdle
    /\ chunk_size \in 1..MaxChunkSize
    /\ \E n \in 0..MaxTravelSamples : tv_x \in [1..n -> TravelRows]
    /\ accel_trav_vec = <<FALSE, <<>> >>
    /\ mags_vs_means = <<FALSE, <<>> >>
    /\ tv_err = ""
    /\ tv_pc = "ready"
    /\ TimeSeriesIdle
    /\ KabschIdle

\* GetAccelTravelVector.run
GetAccelTravelVectorRun ==
    /\ tv_pc = "ready"
    /\ tv_err' = TravelRaises(tv_x, chunk_size)
    /\ IF TravelRaises(tv_x, chunk_size) # ""
       THEN /\ tv_pc' = "error"
            /\ UNCHANGED <<accel_trav_vec, mags_vs_means>>
       ELSE /\ tv_pc' = "done"
            /\ accel_trav_vec' = <<TRUE, TravelVector(tv_x, chunk_size)>>
            /\ mags_vs_means' = <<TRUE, ScatterPoints(tv_x, chunk_size)>>
    /\ UNCHANGED <<tv_x, chunk_size, rvars, dvars, cvars, tsvars, kvars>>

NextTravel == GetAccelTravelVectorRun

SpecTravel == InitTravel /\ [][NextTravel]_vars

(***************************************************************************)
(* Claims about GetAccelTravelVector                                       *)
(***************************************************************************)
\* the mean of the chunk starting at row at (0-based rows at .. at + chunk_size - 1)
\* of the series less its per-axis mean, times chunk_size * len(x)
GatedMean(at) ==
    LET n == Len(tv_x)
        total(c) == SumTo([k \in 1..n |-> tv_x[k][c]], n)
        part(c) == SumTo([k \in 1..chunk_size |-> n * tv_x[at + k][c] - total(c)], chunk_size)
    IN <<part(1), part(2), part(3)>>

\* no full chunk passes the magnitude-and-direction gate
NoChunkSurvives ==
    \A j \in 0..((Len(tv_x) \div chunk_size) - 1) :
        LET m == GatedMean(j * chunk_size)
        IN ~(/\ 4 * Dot(m, m) > 81 * chunk_size * chunk_size * Len(tv_x) * Len(tv_x)
             /\ m[1] < 0)

\* C12 (as stated): when no chunk survives the gate, GetAccelTravelVector raises a
\* DegenerateFit error and writes neither the travel vector nor the diagnostic
\* dataset.
C12_NoSurvivorRaisesDegenerateFit ==
    (tv_pc \in {"done", "error"} /\ NoChunkSurvives) =>
        /\ tv_pc = "error"
        /\ tv_err = "DegenerateFit"
        /\ ~accel_trav_vec[1]
        /\ ~mags_vs_means[1]

(***************************************************************************)
(* TimeSeries and ChunkedTimeSeries.iter_chunks (classes/time_series.py)   *)
(***************************************************************************)
\* largest extent of an array dimension
MaxDim == 2

\* numpy shapes: of the t argument (0-d, 1-d, or a column) and of the x argument
TShapes == {<<>>} \cup {<<n>> : n \in 0..MaxDim} \cup {<<n, 1>> : n \in 0..MaxDim}
XShapes == {<<>>} \cup {<<n>> : n \in 0..MaxDim}
              \cup {<<n, d>> : n \in 0..MaxDim, d \in 0..MaxDim}

\* (mutant of PostInit) the length comparison is left out
PostInitNoLengthCheck(t, x) ==
    IF Len(t) # 1 THEN [err |-> "ValueError", x |-> x]
    ELSE LET x2 == IF Len(x) = 1 THEN <<x[1], 1>> ELSE x
         IN [err |-> "", x |-> x2]

\* TimeSeries.__post_init__ on arrays of shapes t and x: the exception raised ("" if
\* none) and the shape of the x field afterwards; x.shape[0] of a 0-d array raises
\* IndexError
PostInit(t, x) ==
    IF Len(t) # 1 THEN [err |-> "ValueError", x |-> x]
    ELSE LET x2 == IF Len(x) = 1 THEN <<x[1], 1>> ELSE x
         IN IF x2 = <<>> THEN [err |-> "IndexError", x |-> x2]
            ELSE IF x2[1] # t[1] THEN [err |-> "ValueError", x |-> x2]
            ELSE [err |-> "", x |-> x2]

\* the shape of a[i0:i1]: a slice stops at the end of the first axis
SliceShape(shape, i0, i1) ==
    LET n == shape[1]
        len == Min(i1, n) - Min(i0, n)
    IN [k \in 1..Len(shape) |-> IF k = 1 THEN (IF len < 0 THEN 0 ELSE len) ELSE shape[k]]

InitTs ==
    /\ RunnerIdle
    /\ DetectorIdle
    /\ ChunkerIdle
    /\ TravelIdle
    /\ KabschIdle
    /\ ts_made = <<>>
    /\ ts_args = <<>>
    /\ ts_err = ""

\* the constructor call TimeSeries(t=.., x=..) on arrays of shapes t and x
Construct(t, x, via) ==
    LET r == PostInit(t, x)
    IN /\ ts_args' = <<[t |-> t, x |-> x, via |-> via]>>
       /\ ts_err' = r.err
       /\ ts_made' = IF r.err = "" THEN <<[t |-> t, x |-> r.x]>> ELSE ts_made

\* a loader, a step or Runner._load_cache constructs a TimeSeries
NewTimeSeries ==
    /\ \E t \in TShapes, x \in XShapes : Construct(t, x, "new")
    /\ UNCHANGED <<rvars, dvars, cvars, tvars, kvars>>

\* one step of ChunkedTimeSeries.iter_chunks over the TimeSeries made last, for a
\* span (i0, i1); ChunkStep makes spans that may end after the last sample
IterChunk ==
    /\ ts_made # <<>>
    /\ \E i0 \in 0..MaxDim, len \in 0..MaxDim :
          Construct(SliceShape(ts_made[1].t, i0, i0 + len),
                    SliceShape(ts_made[1].x, i0, i0 + len), "iter_chunks")
    /\ UNCHANGED <<rvars, dvars, cvars, tvars, kvars>>

NextTs == NewTimeSeries \/ IterChunk

SpecTs == InitTs /\ [][NextTs]_vars

(***************************************************************************)
(* Claims about TimeSeries                                                 *)
(***************************************************************************)
\* C13: every TimeSeries that exists has len(t) equal to the number of rows of x:
\* a constructor call with mismatched lengths fails (a 1-D x counts as N x 1), so
\* whatever a loader, a step, a cache load or iter_chunks constructs satisfies it.
C13_RowsMatchTimestamps ==
    /\ ts_made # <<>> =>
          /\ Len(ts_made[1].t) = 1
          /\ Len(ts_made[1].x) >= 2
          /\ ts_made[1].x[1] = ts_made[1].t[1]
    /\ ts_args # <<>> =>
          LET a == ts_args[1]
              rows == IF a.x = <<>> THEN -1 ELSE a.x[1]
          IN (Len(a.t) = 1 /\ rows # a.t[1]) => ts_err # ""

\* a constructor call with a 1-D x of two samples succeeded and x is now 2 x 1
C13_Witness ==
    /\ ts_made # <<>>
    /\ ts_err = ""
    /\ ts_args[1].x = <<2>>
    /\ ts_made[1] = [t |-> <<2>>, x |-> <<2, 1>>]

(***************************************************************************)
(* RotationFromPairs.kabsch_rotation (accel_rotation.py)                   *)
(***************************************************************************)
\* the weights a pair can have
WeightChoices == {1, 2}

\* the unit vectors of the pairs: A is made of the axes, B of the axes and their
\* opposites, or a row of NaN (b_mean / 0), written NaNVec
Axes == <<<<1, 0, 0>>, <<0, 1, 0>>, <<0, 0, 1>>>>
SignedAxes == {<<1, 0, 0>>, <<0, 1, 0>>, <<0, 0, 1>>, <<-1, 0, 0>>, <<0, -1, 0>>, <<0, 0, -1>>}
NaNVec == <<0, 0, 0>>

\* the orthogonal matrices with entries in {-1, 0, 1}
Perms3 == {p \in [1..3 -> 1..3] : \A a, b \in 1..3 : a # b => p[a] # p[b]}
SignedPerms ==
    {[r \in 1..3 |-> [c \in 1..3 |-> IF p[r] = c THEN sg[r] ELSE 0]] :
        p \in Perms3, sg \in [1..3 -> {-1, 1}]}

MatMul(X, Y) ==
    [r \in 1..3 |-> [c \in 1..3 |-> X[r][1] * Y[1][c] + X[r][2] * Y[2][c] + X[r][3] * Y[3][c]]]

Transpose(X) == [r \in 1..3 |-> [c \in 1..3 |-> X[c][r]]]

\* np.linalg.det of a 3 x 3 matrix
Det3(X) ==
      X[1][1] * (X[2][2] * X[3][3] - X[2][3] * X[3][2])
    - X[1][2] * (X[2][1] * X[3][3] - X[2][3] * X[3][1])
    + X[1][3] * (X[2][1] * X[3][2] - X[2][2] * X[3][1])

\* H = (A * w[:, None]).T @ B
CrossCovariance(A, B, w) ==
    [r \in 1..3 |-> [c \in 1..3 |->
        SumSeq([k \in 1..Len(A) |-> w[k] * A[k][r] * B[k][c]])]]

\* np.linalg.svd raises LinAlgError: H is not 2-D when there is no pair, and the
\* decomposition does not converge when H holds NaN
SvdRaises(A, B) == A = <<>> \/ \E k \in 1..Len(B) : B[k] = NaNVec

\* the Vt that go with U when U^T H = M: M = diag(S) Vt with S[1] >= S[2] >= S[3] >= 0
SvdWith(U, M) ==
    LET S == [r \in 1..3 |-> Abs(M[r][1]) + Abs(M[r][2]) + Abs(M[r][3])]
    IN IF S[1] >= S[2] /\ S[2] >= S[3]
       THEN {<<U, Vt>> : Vt \in {V \in SignedPerms :
                                   \A r \in 1..3, c \in 1..3 : M[r][c] = S[r] * V[r][c]}}
       ELSE {}

\* the factorisations np.linalg.svd may return, among those with U and Vt in
\* SignedPerms: H = U diag(S) Vt with S[1] >= S[2] >= S[3] >= 0
SvdOutcomes(H) ==
    UNION {UNION {SvdWith(U, M) : M \in {MatMul(Transpose(U), H)}} : U \in SignedPerms}

\* U[:, -1] *= -1
NegateLastColumn(U) == [r \in 1..3 |-> [c \in 1..3 |-> IF c = 3 THEN -U[r][c] ELSE U[r][c]]]

\* (mutant of KabschR) the reflection is not fixed
KabschRUnfixed(U, Vt) == MatMul(U, Vt)

\* R = U @ Vt; if np.linalg.det(R) < 0: U[:, -1] *= -1; R = U @ Vt
KabschR(U, Vt) ==
    IF Det3(MatMul(U, Vt)) < 0 THEN MatMul(NegateLastColumn(U), Vt) ELSE MatMul(U, Vt)

\* the inputs: up to three pairs, A along distinct axes, B along distinct axes up to
\* sign (so that H has one entry per row and column) or NaN
InitKabsch ==
    /\ RunnerIdle
    /\ DetectorIdle
    /\ ChunkerIdle
    /\ TravelIdle
    /\ TimeSeriesIdle
    /\ \E K \in 0..3 :
          /\ kab_A = SubSeq(Axes, 1, K)
          /\ kab_B \in [1..K -> SignedAxes \cup {NaNVec}]
          /\ \A a, b \in 1..K :
                (a # b /\ kab_B[a] # NaNVec /\ kab_B[b] # NaNVec)
                    => Dot(kab_B[a], kab_B[b]) = 0
          /\ kab_w \in [1..K -> WeightChoices]
    /\ kab_U = <<>>
    /\ kab_Vt = <<>>
    /\ kab_R = <<>>
    /\ kab_pc = "ready"

\* RotationFromPairs.kabsch_rotation(B, A, weights)
KabschRotation ==
    /\ kab_pc = "ready"
    /\ IF SvdRaises(kab_A, kab_B)
       THEN /\ kab_pc' = "error"
            /\ UNCHANGED <<kab_U, kab_Vt, kab_R>>
       ELSE \E H \in {CrossCovariance(kab_A, kab_B, kab_w)} : \E uv \in SvdOutcomes(H) :
               /\ kab_U' = uv[1]
               /\ kab_Vt' = uv[2]
               /\ kab_R' = <<KabschR(uv[1], uv[2])>>
               /\ kab_pc' = "done"
    /\ UNCHANGED <<kab_A, kab_B, kab_w, rvars, dvars, cvars, tvars, tsvars>>

NextKabsch == KabschRotation

SpecKabsch == InitKabsch /\ [][NextKabsch]_vars

(***************************************************************************)
(* Claims about kabsch_rotation                                            *)
(***************************************************************************)
\* the determinant as the triple product of the rows
TripleProduct(X) == Dot(X[1], Cross(X[2], X[3]))

Identity3 == [r \in 1..3 |-> [c \in 1..3 |-> IF r = c THEN 1 ELSE 0]]

\* C14: kabsch_rotation returns a proper rotation: an orthogonal matrix of
\* determinant +1; when the candidate U Vt has negative determinant the matrix
\* returned is U with its last column negated, times Vt.
C14_ProperRotation ==
    kab_pc = "done" =>
        LET R == kab_R[1]
            candidate == MatMul(kab_U, kab_Vt)
        IN /\ TripleProduct(R) = 1
           /\ MatMul(R, Transpose(R)) = Identity3
           /\ TripleProduct(candidate) < 0
                 => R = [r \in 1..3 |-> [c \in 1..3 |->
                            kab_U[r][1] * kab_Vt[1][c] + kab_U[r][2] * kab_Vt[2][c]
                                - kab_U[r][3] * kab_Vt[3][c]]]
           /\ TripleProduct(candidate) > 0 => R = candidate

\* three pairs with B the mirror image of A: the candidate is a reflection, and the
\* matrix returned is not the candidate
C14_Witness ==
    /\ kab_pc = "done"
    /\ Len(kab_A) = 3
    /\ TripleProduct(MatMul(kab_U, kab_Vt)) = -1
    /\ TripleProduct(kab_R[1]) = 1
    /\ kab_R[1] # MatMul(kab_U, kab_Vt)

====
